---- MODULE Spec2Model ----
(***************************************************************************)
(* Model of the multi-track AudioEngine (src/src/lib/audioEngine.ts).      *)
(*                                                                         *)
(* Time is counted in units of 10 ms of the host clock, so that the        *)
(* engine's three timing constants are whole numbers: the scheduling       *)
(* lookahead of seek (0.01 s), the seek-guard delay (50 ms) and the        *)
(* safety margin subtracted from a buffer's duration (0.1 s).              *)
(*                                                                         *)
(* The host is single threaded: every action below is one task of the      *)
(* event loop (a public call up to its first real suspension, a timer, an  *)
(* 'ended' event, an animation frame, a decode completion).                *)
(***************************************************************************)
EXTENDS Integers, Sequences, FiniteSets, Bags, TLC

\* ---------------------------------------------------------------- bounds
\* Spec: one loadTracks(), playback driven once its decodes are over
MaxCalls == 3       \* calls other than loadTracks() in one run
MaxClock == 5       \* the host clock stops advancing here
\* SpecLoad: loadTracks() repeated, every call made at any moment
MaxLoads == 2       \* loadTracks() calls in one run
MaxLoadCalls == 2
MaxLoadClock == 1
\* SpecGain: volume and mute calls around one loadTracks() and a few calls
MaxGainCalls == 3
MaxGainClock == 1
\* SpecShort: one loadTracks() with a short stem, more calls in less time
MaxShortCalls == 4
MaxShortClock == 1
MaxHookCalls == 2
MaxHookClock == 1
MaxRetriesArg == 2
MaxLiveCalls == 3
MaxLiveClock == 1
MaxDisposeCalls == 2
MaxDisposeClock == 1
MaxToggleCalls == 3
\* SpecPoll: one job followed by useJobStatus
MaxFetches == 4     \* status fetches in one run
MaxPollCalls == 2   \* calls of the functions the hook returns, unmounting included

\* ------------------------------------------------------ program constants
StartDelay == 1         \* startDelay = 0.01 s
SeekGuardDelay == 5     \* setTimeout(..., 50)
SafeSeekMargin == 10    \* bufferDuration - 0.1
DefaultVolume == 75     \* volume: 75
DefaultGain == 10000    \* a GainNode is created with gain 1
ThrottleDelay == 10     \* now - lastUpdate > 100
MaxSize == 100 * 1024 * 1024    \* maxSize, in bytes
PollInterval == 2000    \* pollInterval = 2000, in ms
MaxRetries == 10        \* maxRetries = 10
MaxRetryDelay == 30000  \* Math.min(..., 30000), in ms

\* ------------------------------------------------------------- the inputs
TrackNames == {"vocals", "drums"}
\* what decodeAudioData yields for each stem: the stems differ in length, and
\* "click" is shorter than the 0.1 s margin of startPlaybackFromPosition
DecodedDuration(name) ==
    IF name = "vocals" THEN 12 ELSE IF name = "click" THEN 8 ELSE 14
\* the outcomes of one stem's fetch and decode
Outcomes == {"decoded", "failed"}
\* the trackUrls objects passed to loadTracks, as their key order
UrlLists == {<<"vocals">>, <<"vocals", "drums">>}
\* SpecShort: a load with a stem shorter than 0.1 s
ShortTrackNames == {"vocals", "click"}
ShortUrlLists == {<<"vocals", "click">>}
\* the times passed to seek: below range, both ends, inside, above range
SeekTimes == {-1, 2, 12, 15}
\* the volumes passed to setTrackVolume, in hundredths: 0.5 and 50
VolumeArgs == {50, 5000}
\* the volumes passed to setMasterVolume: inside and above 0..100
MasterVolumeArgs == {50, 150}

VARIABLES
    audioContext,        \* "suspended" | "running" : AudioContext.state; "closed"
                         \* once dispose() has closed it and set the field to null
    clock,               \* audioContext.currentTime
    tracks,              \* the Map, in insertion order
    startTime,           \* reference instant R
    pausedAt,
    animationFrameId,    \* TRUE while a frame callback is scheduled
    stateChangeCallback, \* TRUE while a listener is registered
    masterGainNode,      \* masterGainNode.gain, in units of 1/10000
    isSeeking,           \* the seek-guard
    timers,              \* pending seek-guard timeouts, oldest first
    ended,               \* bag: discarded sources whose 'ended' event is pending
    orphans,             \* bag: started sources no track refers to any more
    loads,               \* the loadTracks() calls made so far
    playWaiting,         \* play() calls suspended at `await resume()`
    calls,               \* the owner's calls so far, loadTracks() apart
    snaps,               \* snapshots handed to the listener by the last task
    hook,                \* the listener of useAudioPlayer: its throttle and its state
    retry,               \* a retryWithBackoff() call of the API client
    upload,              \* an uploadFile() call of the API client
    trackStates,         \* the trackStates of useAudioPlayer: as last rendered, as last set
    poll,                \* useJobStatus: its state, its closures, its pending tasks
    ev                   \* the last task and what it did

vars == <<audioContext, masterGainNode, clock, tracks, startTime, pausedAt, animationFrameId,
          stateChangeCallback, isSeeking, timers, ended, orphans, loads,
          playWaiting, calls, snaps, hook, retry, upload, trackStates, poll, ev>>

\* what the engine and its listener hold
engineVars == <<audioContext, masterGainNode, clock, tracks, startTime, pausedAt,
                animationFrameId, stateChangeCallback, isSeeking, timers, ended,
                orphans, loads, playWaiting, calls, snaps, hook, trackStates, ev>>

Max(a, b) == IF a >= b THEN a ELSE b
Min(a, b) == IF a <= b THEN a ELSE b
Range(s) == {s[i] : i \in 1..Len(s)}

\* ------------------------------------------------------- buffer sources
\* track.source: null, or an AudioBufferSourceNode. `started`: start(startAt,
\* offset) was called on it and did not throw; it then plays until its buffer
\* runs out at endAt. `fired`: its 'ended' event has been delivered.
NoSource == [on |-> FALSE, started |-> FALSE, kind |-> "none", startAt |-> 0,
             offset |-> 0, endAt |-> 0, fired |-> FALSE]

\* track.gainNode === null
NoGainNode == 0 - 1

\* the value updateTrackGain writes, in units of 1/10000:
\* volume = isMuted ? 0 : volume / 100; gain = volume ** 2
TrackGain(isMuted, volume) == IF isMuted THEN 0 ELSE volume * volume

\* ------------------------------------------------------- derived state
\* a duration recomputed as the longest buffer's
LongestBufferDuration(trks) ==
    IF \E i \in 1..Len(trks) : trks[i].buffer # 0
    THEN CHOOSE d \in {trks[i].buffer : i \in 1..Len(trks)} :
             \A i \in 1..Len(trks) : trks[i].buffer <= d
    ELSE 0

\* Array.from(tracks.values()).find(track => track.buffer)?.buffer?.duration || 0
FirstBufferDuration(trks) ==
    IF \E i \in 1..Len(trks) : trks[i].buffer # 0
    THEN trks[CHOOSE i \in 1..Len(trks) :
                  /\ trks[i].buffer # 0
                  /\ \A j \in 1..(i-1) : trks[j].buffer = 0].buffer
    ELSE 0

\* tracks.size > 0 && some(track => track.source !== null)
SomeSource(trks) == Len(trks) > 0 /\ \E i \in 1..Len(trks) : trks[i].source.on

getCurrentTime(playing, st, pa) ==
    IF playing /\ st # 0 THEN clock - st ELSE pa

\* the engine fields a call rewrites, as one value
\* threw: a start() of the call threw
Eng == [tracks |-> tracks, startTime |-> startTime, pausedAt |-> pausedAt,
        raf |-> animationFrameId, ended |-> ended, snaps |-> <<>>,
        threw |-> FALSE]

getState(e) ==
    [isPlaying   |-> SomeSource(e.tracks),
     currentTime |-> getCurrentTime(SomeSource(e.tracks), e.startTime, e.pausedAt),
     duration    |-> FirstBufferDuration(e.tracks),
     isLoading   |-> FALSE,
     error       |-> "null"]

\* updateState(partialState): the snapshot is built from the tracks and the
\* clock, the fields of partialState override it, and it goes to the listener
updateState(e, partial) ==
    IF ~stateChangeCallback THEN e
    ELSE LET isPlaying == IF "isPlaying" \in DOMAIN partial
                          THEN partial.isPlaying ELSE SomeSource(e.tracks)
             currentState ==
                 [isPlaying   |-> isPlaying,
                  currentTime |-> getCurrentTime(isPlaying, e.startTime, e.pausedAt),
                  duration    |-> FirstBufferDuration(e.tracks),
                  isLoading   |-> FALSE,
                  error       |-> "null"]
             newState == [f \in DOMAIN currentState |->
                             IF f \in DOMAIN partial THEN partial[f]
                             ELSE currentState[f]]
         IN  [e EXCEPT !.snaps = Append(@, newState)]

\* the 'ended' event a discarded source leaves behind. by: the call that
\* discarded it ("seek", "play" or "pause"), kept as bySeek and byPlay; guard:
\* the place in `timers` of that seek's timeout (0 once it has fired); rapid:
\* that seek belongs to a rapid sequence (see RapidSeek)
EndedEvent(src, by, rapid) ==
    [kind |-> src.kind, bySeek |-> by = "seek", byPlay |-> by = "play",
     guard |-> IF by = "seek" THEN Len(timers) + 1 ELSE 0, rapid |-> rapid]

RECURSIVE EventsOf(_, _, _, _)
EventsOf(trks, i, by, rapid) ==
    IF i = 0 THEN EmptyBag
    ELSE EventsOf(trks, i - 1, by, rapid) (+)
         (IF trks[i].source.on /\ trks[i].source.started /\ ~trks[i].source.fired
          THEN SetToBag({EndedEvent(trks[i].source, by, rapid)})
          ELSE EmptyBag)

\* for (track of tracks) if (track.source) { track.source.stop(0); track.source = null }
StopSources(e, by, rapid) ==
    [e EXCEPT
       !.ended = @ (+) EventsOf(e.tracks, Len(e.tracks), by, rapid),
       !.tracks = [i \in 1..Len(e.tracks) |-> [e.tracks[i] EXCEPT !.source = NoSource]]]

\* the offset a source is started at: play() passes pausedAt,
\* startPlaybackFromPosition min(position, bufferDuration - 0.1)
StartOffset(kind, buffer, position) ==
    IF kind = "seek" THEN Min(position, buffer - SafeSeekMargin) ELSE position

\* AudioBufferSourceNode.start(when, offset) throws a RangeError when offset
\* is negative
StartThrows(kind, buffer, position) == StartOffset(kind, buffer, position) < 0

\* the first track whose start() throws, 0 when none does
FirstThrow(trks, kind, position) ==
    LET bad == {i \in 1..Len(trks) :
                  trks[i].buffer # 0 /\ StartThrows(kind, trks[i].buffer, position)}
    IN  IF bad = {} THEN 0 ELSE CHOOSE i \in bad : \A j \in bad : i <= j

\* for (track of tracks) if (track.buffer) { track.source = createBufferSource();
\*   track.gainNode = createGain(); updateTrackGain(track); start(when, offset);
\*   onended = ... }: the loop ends at the first start() that throws, its track
\* left with the source that was created
StartSources(e, kind, when, position) ==
    LET trks == e.tracks
        f == FirstThrow(trks, kind, position)
        offsetOf(i) == StartOffset(kind, trks[i].buffer, position)
        new(i) == [on |-> TRUE, started |-> TRUE, kind |-> kind, startAt |-> when,
                   offset |-> offsetOf(i),
                   endAt |-> when + Max(0, trks[i].buffer - offsetOf(i)),
                   fired |-> FALSE]
        created == [NoSource EXCEPT !.on = TRUE, !.kind = kind]
        gain(i) == TrackGain(trks[i].isMuted, trks[i].volume)
    IN  [e EXCEPT
           !.threw = (f # 0),
           !.tracks = [i \in 1..Len(trks) |->
                          IF trks[i].buffer # 0 /\ (f = 0 \/ i < f)
                          THEN [trks[i] EXCEPT !.source = new(i), !.gainNode = gain(i)]
                          ELSE IF i = f
                          THEN [trks[i] EXCEPT !.source = created, !.gainNode = gain(i)]
                          ELSE trks[i]]]

NumLoaded(trks) == Cardinality({j \in 1..Len(trks) : trks[j].buffer # 0})

\* engineState as useAudioPlayer first holds it
InitialEngineState ==
    [isPlaying |-> FALSE, currentTime |-> 0, duration |-> 0,
     isLoading |-> FALSE, error |-> "null"]

\* The listener useAudioPlayer registers. since: Date.now() - lastUpdate in
\* units of 10 ms, every value above ThrottleDelay kept as ThrottleDelay + 1
\* (lastUpdate starts at 0, long before any Date.now()); engineState: what
\* setEngineState was last given. on: the throttle is followed; where it is
\* not, the listener is seen through `snaps` alone.
HookOff == [on |-> FALSE, since |-> ThrottleDelay + 1, lastIsPlaying |-> FALSE,
            engineState |-> InitialEngineState]

HookOn == [HookOff EXCEPT !.on = TRUE]

\* the listener's body for one snapshot
StateChange(h, newState) ==
    IF h.lastIsPlaying # newState.isPlaying
    THEN [h EXCEPT !.lastIsPlaying = newState.isPlaying, !.since = 0,
                   !.engineState = newState]
    ELSE IF h.since > ThrottleDelay
    THEN [h EXCEPT !.since = 0, !.engineState = newState]
    ELSE h

\* the snapshots of one task reach the listener in order, at one Date.now()
RECURSIVE Deliver(_, _)
Deliver(h, ss) ==
    IF ~h.on \/ ss = <<>> THEN h
    ELSE Deliver(StateChange(h, Head(ss)), Tail(ss))

\* 10 ms pass for the listener
Elapse(h) ==
    IF h.on THEN [h EXCEPT !.since = Min(ThrottleDelay + 1, @ + 1)] ELSE h

Commit(e) ==
    /\ tracks' = e.tracks
    /\ startTime' = e.startTime
    /\ pausedAt' = e.pausedAt
    /\ animationFrameId' = e.raf
    /\ ended' = e.ended
    /\ snaps' = e.snaps
    /\ hook' = Deliver(hook, e.snaps)

\* ev: op the task; was: getState().isPlaying when it began; arg: its argument;
\* name: the track it names; paused: it ran the body of pause(); failed: a
\* start() threw in it; threw: the call rejected;
\* rapid, inGuard, byPlay: see OnEndedDiscarded; afterSeek, pos: see AfterSeek;
\* sincePlay: play() was called and no pause(), stop() or seek() since;
\* inWait: pause() or stop() was called while the play() call made last was
\* suspended at `await resume()`
NoEv == [op |-> "init", was |-> FALSE, arg |-> 0, name |-> "", paused |-> FALSE,
         failed |-> FALSE, threw |-> FALSE, rapid |-> FALSE, inGuard |-> FALSE,
         afterSeek |-> FALSE, pos |-> 0, sincePlay |-> FALSE, byPlay |-> FALSE,
         inWait |-> FALSE]

\* what a task records unless it says otherwise
NextEv == [NoEv EXCEPT !.sincePlay = ev.sincePlay, !.inWait = ev.inWait]

\* getTrackStates(): volume, isMuted and isLoaded of every track of the map
getTrackStates(trks) ==
    [i \in 1..Len(trks) |->
        [name |-> trks[i].name, volume |-> trks[i].volume,
         isMuted |-> trks[i].isMuted, isLoaded |-> trks[i].buffer # 0]]

\* trackStates before anything is loaded. on: the hook's copy is followed;
\* rendered: the value the callbacks of the last render closed over; latest:
\* the value setTrackStates was last given
TrackStatesOff == [on |-> FALSE, rendered |-> <<>>, latest |-> <<>>]

TrackStatesOn == [TrackStatesOff EXCEPT !.on = TRUE]

\* setTrackStates(engine.getTrackStates())
SetTrackStates(trks) ==
    IF trackStates.on THEN [trackStates EXCEPT !.latest = getTrackStates(trks)]
    ELSE trackStates

\* no retryWithBackoff() call is under way
RetryIdle ==
    [maxRetries |-> 0, baseDelay |-> 0, operation |-> <<>>, attempt |-> 0,
     invoked |-> 0, lastError |-> [kind |-> "undefined", statusCode |-> 0, at |-> 0],
     state |-> "idle", value |-> 0, delay |-> 0]

\* no uploadFile() call is under way
UploadIdle ==
    [file |-> [size |-> 0, type |-> <<>>, name |-> <<>>], state |-> "idle",
     error |-> [kind |-> "", message |-> ""], requests |-> 0]

\* useJobStatus is not mounted
PollIdle ==
    [on |-> FALSE, mounted |-> FALSE, isMountedRef |-> FALSE, status |-> "null",
     isLoading |-> FALSE, error |-> FALSE, isPolling |-> FALSE, retryCount |-> 0,
     rendered |-> [isPolling |-> FALSE, retryCount |-> 0], tasks |-> <<>>,
     handled |-> "none", fetches |-> 0, calls |-> 0, fetchFailed |-> FALSE]

\* the engine as useAudioPlayer holds it: constructed, the listener registered,
\* the AudioContext created outside a user gesture
InitEngine ==
    /\ audioContext = "suspended"
    /\ masterGainNode = DefaultGain
    /\ clock = 0
    /\ tracks = <<>>
    /\ startTime = 0
    /\ pausedAt = 0
    /\ animationFrameId = FALSE
    /\ stateChangeCallback = TRUE
    /\ isSeeking = FALSE
    /\ timers = <<>>
    /\ ended = EmptyBag
    /\ orphans = EmptyBag
    /\ loads = <<>>
    /\ playWaiting = 0
    /\ calls = 0
    /\ snaps = <<>>
    /\ ev = NoEv

\* no call of the API client is under way
InitApiIdle == retry = RetryIdle /\ upload = UploadIdle

Init == InitEngine /\ hook = HookOff /\ trackStates = TrackStatesOff
    /\ InitApiIdle /\ poll = PollIdle

\* the same, the listener's throttle followed
InitHook == InitEngine /\ hook = HookOn /\ trackStates = TrackStatesOff
    /\ InitApiIdle /\ poll = PollIdle

\* the same, the hook's trackStates followed
InitToggle == InitEngine /\ hook = HookOff /\ trackStates = TrackStatesOn
    /\ InitApiIdle /\ poll = PollIdle

\* ---------------------------------------------------------------- loading
NewTrack(name, buffer) ==
    [name |-> name, buffer |-> buffer, gainNode |-> NoGainNode,
     source |-> NoSource, isMuted |-> FALSE, volume |-> DefaultVolume]

\* tracks.set(name, track): a new key goes last, an existing key keeps its place
TrackSet(trks, rec) ==
    IF \E i \in 1..Len(trks) : trks[i].name = rec.name
    THEN [i \in 1..Len(trks) |-> IF trks[i].name = rec.name THEN rec ELSE trks[i]]
    ELSE Append(trks, rec)

\* the sources tracks.set(name, ...) drops the last reference to
Orphaned(trks, name) ==
    SetToBag({[track |-> name, kind |-> trks[i].source.kind,
               endAt |-> trks[i].source.endAt] :
              i \in {j \in 1..Len(trks) : /\ trks[j].name = name
                                          /\ trks[j].source.on
                                          /\ trks[j].source.started
                                          /\ ~trks[j].source.fired}})

\* loadTracks(trackUrls) up to its await: every fetch is issued
LoadTracks(urls) ==
    /\ loads' = Append(loads, [urls |-> urls, pending |-> Range(urls),
                               decoded |-> {}, failed |-> {},
                               outcome |-> "pending", pendingAtSettle |-> 0])
    /\ Commit(updateState(Eng, [isLoading |-> TRUE, error |-> "null"]))
    /\ ev' = [NextEv EXCEPT !.op = "loadTracks", !.was = SomeSource(tracks)]
    /\ UNCHANGED <<poll, retry, upload, trackStates, masterGainNode, calls, audioContext, clock,
                   stateChangeCallback, isSeeking, timers,
                   orphans, playWaiting>>

\* One stem of call k settles: the body of the map callback after its awaits,
\* then whatever of loadTracks this lets run. Promise.all rejects on the first
\* rejection and resolves when the last stem has resolved.
DecodeDone(k, name, result) ==
    /\ k \in 1..Len(loads)
    /\ name \in loads[k].pending
    /\ LET call == loads[k]
           rec == NewTrack(name, IF result = "decoded" THEN DecodedDuration(name) ELSE 0)
           e1 == [Eng EXCEPT !.tracks = TrackSet(@, rec)]
           left == call.pending \ {name}
           rejects == result = "failed" /\ call.outcome = "pending"
           resolves == result = "decoded" /\ left = {} /\ call.outcome = "pending"
           e2 == IF rejects
                 THEN updateState(e1, [isLoading |-> FALSE, error |-> "load failed"])
                 ELSE IF resolves
                 THEN updateState(e1, [isLoading |-> FALSE,
                                       duration |-> FirstBufferDuration(e1.tracks),
                                       error |-> "null"])
                 ELSE e1
       IN  /\ Commit(e2)
           /\ trackStates' = IF resolves THEN SetTrackStates(e2.tracks) ELSE trackStates
           /\ orphans' = orphans (+) Orphaned(tracks, name)
           /\ loads' = [loads EXCEPT ![k] =
                  [call EXCEPT
                     !.pending = left,
                     !.decoded = IF result = "decoded" THEN @ \cup {name} ELSE @,
                     !.failed = IF result = "failed" THEN @ \cup {name} ELSE @,
                     !.outcome = IF rejects THEN "rejected"
                                 ELSE IF resolves THEN "resolved" ELSE @,
                     !.pendingAtSettle = IF rejects \/ resolves
                                         THEN Cardinality(left) ELSE @]]
    /\ ev' = [NextEv EXCEPT !.op = "decodeDone", !.was = SomeSource(tracks),
                          !.arg = k]
    /\ UNCHANGED <<poll, retry, upload, masterGainNode,
                   audioContext, clock, stateChangeCallback, isSeeking, timers,
                   playWaiting, calls>>

\* --------------------------------------------------------------- playback
\* a play that restarts every buffer from its beginning
playBodyFromStart(e) ==
    LET e1 == StopSources(e, "play", FALSE)
        e2 == [e1 EXCEPT !.startTime = clock]
        e3 == StartSources(e2, "play", clock, 0)
    IN  IF e3.threw
        THEN updateState(e3, [error |-> "Failed to start playback"])
        ELSE [updateState(e3, [isPlaying |-> TRUE]) EXCEPT !.raf = TRUE]

\* play() from `try {` on: stop what plays, set R, start a source per buffer;
\* when a start() throws, the catch publishes the error and rethrows
playBody(e) ==
    LET e1 == StopSources(e, "play", FALSE)
        e2 == [e1 EXCEPT !.startTime = clock - e1.pausedAt]
        e3 == StartSources(e2, "play", clock, e2.pausedAt)
    IN  IF e3.threw
        THEN updateState(e3, [error |-> "Failed to start playback"])
        ELSE [updateState(e3, [isPlaying |-> TRUE])
                 EXCEPT !.raf = TRUE]     \* startTimeUpdates()

\* afterSeek: this play() call directly follows a seek() made while not
\* playing (only the resume of the context may lie between); pos: the time
\* that seek() was given
AfterSeek ==
    \/ ev.op = "seek" /\ ~ev.was
    \/ ev.op \in {"playSuspend", "resumed"} /\ ev.afterSeek

\* play() has no check of the loaded tracks: with the context there it
\* rejects only with what a start() threw
PlayEv == [NextEv EXCEPT !.op = "play", !.was = SomeSource(tracks),
                       !.arg = pausedAt,
                       !.failed = playBody(Eng).threw,
                       !.threw = playBody(Eng).threw,
                       !.afterSeek = AfterSeek,
                       !.pos = IF AfterSeek THEN ev.pos ELSE 0]

\* play() with the context running: nothing is awaited
Play ==
    /\ audioContext = "running"
    /\ Commit(playBody(Eng))
    /\ ev' = [PlayEv EXCEPT !.sincePlay = TRUE, !.inWait = FALSE]
    /\ calls' = calls + 1
    /\ UNCHANGED <<poll, retry, upload, trackStates, masterGainNode,
                   audioContext, clock, stateChangeCallback, isSeeking, timers,
                   orphans, loads, playWaiting>>

\* play() with the context suspended: the call stops at `await resume()`
PlaySuspend ==
    /\ audioContext = "suspended"
    /\ playWaiting' = playWaiting + 1
    /\ snaps' = <<>>
    /\ UNCHANGED hook
    /\ ev' = [NextEv EXCEPT !.op = "playSuspend", !.was = SomeSource(tracks),
                          !.sincePlay = TRUE, !.inWait = FALSE,
                          !.afterSeek = AfterSeek,
                          !.pos = IF AfterSeek THEN ev.pos ELSE 0]
    /\ calls' = calls + 1
    /\ UNCHANGED <<poll, retry, upload, trackStates,
                   masterGainNode, audioContext, clock, tracks, startTime, pausedAt,
                   animationFrameId, stateChangeCallback, isSeeking, timers,
                   ended, orphans, loads>>

\* the host resumes the output device
Resumed ==
    /\ audioContext = "suspended"
    /\ playWaiting > 0
    /\ audioContext' = "running"
    /\ snaps' = <<>>
    /\ UNCHANGED hook
    /\ ev' = [NextEv EXCEPT !.op = "resumed", !.was = SomeSource(tracks),
                          !.afterSeek = AfterSeek,
                          !.pos = IF AfterSeek THEN ev.pos ELSE 0]
    /\ UNCHANGED <<poll, retry, upload, trackStates, masterGainNode,
                   clock, tracks, startTime, pausedAt, animationFrameId,
                   stateChangeCallback, isSeeking, timers, ended, orphans,
                   loads, playWaiting, calls>>

\* a suspended play() continues after `await resume()`
PlayContinue ==
    /\ audioContext = "running"
    /\ playWaiting > 0
    /\ playWaiting' = playWaiting - 1
    /\ Commit(playBody(Eng))
    /\ ev' = PlayEv
    /\ UNCHANGED <<poll, retry, upload, trackStates, masterGainNode,
                   audioContext, clock, stateChangeCallback, isSeeking, timers,
                   orphans, loads, calls>>

\* pause()
pauseBody(e) ==
    IF isSeeking THEN e
    ELSE LET e1 == [e EXCEPT !.pausedAt = IF e.startTime # 0
                                          THEN clock - e.startTime ELSE @]
             e2 == StopSources(e1, "pause", FALSE)
             e3 == [e2 EXCEPT !.raf = FALSE]      \* stopTimeUpdates()
         IN  updateState(e3, [isPlaying |-> FALSE, currentTime |-> e3.pausedAt])

Pause ==
    /\ Commit(pauseBody(Eng))
    /\ ev' = [NextEv EXCEPT !.op = "pause", !.sincePlay = FALSE, !.was = SomeSource(tracks),
                          !.inWait = (ev.inWait \/ playWaiting > 0),
                          !.paused = ~isSeeking]
    /\ calls' = calls + 1
    /\ UNCHANGED <<poll, retry, upload, trackStates, masterGainNode,
                   audioContext, clock, stateChangeCallback, isSeeking, timers,
                   orphans, loads, playWaiting>>

\* stop()
stopBody(e) ==
    LET e1 == pauseBody(e)
        e2 == [e1 EXCEPT !.pausedAt = 0]
    IN  updateState(e2, [currentTime |-> 0])

Stop ==
    /\ Commit(stopBody(Eng))
    /\ ev' = [NextEv EXCEPT !.op = "stop", !.sincePlay = FALSE, !.was = SomeSource(tracks),
                          !.inWait = (ev.inWait \/ playWaiting > 0),
                          !.paused = ~isSeeking]
    /\ calls' = calls + 1
    /\ UNCHANGED <<poll, retry, upload, trackStates, masterGainNode,
                   audioContext, clock, stateChangeCallback, isSeeking, timers,
                   orphans, loads, playWaiting>>

\* startPlaybackFromPosition(position); the context is running whenever a
\* source exists, so its `await resume()` is never taken. What a start()
\* throws leaves the function, and seek(), uncaught
startPlaybackFromPosition(e, position) ==
    LET currentTime == clock + StartDelay
        e1 == [e EXCEPT !.startTime = currentTime - position]
        e2 == StartSources(e1, "seek", currentTime, position)
    IN  IF e2.threw THEN e2
        ELSE [updateState(e2, [isPlaying |-> TRUE])
                 EXCEPT !.raf = TRUE]     \* startTimeUpdates()

\* a seek() belongs to a rapid sequence of seeks made while playing when it
\* is made while playing and the seek before it, if its timer is still
\* pending, belongs to one
RapidSeek == SomeSource(tracks) /\ (timers = <<>> \/ timers[Len(timers)].rapid)

\* a clamp that forgets the upper end
ClampSeekLowerOnly(time, duration) == Max(0, time)

\* Math.max(0, Math.min(time, duration))
ClampSeek(time, duration) == Max(0, Min(time, duration))

\* a seek that leaves isPlaying out of its first updateState
seekBodyDerivedPlaying(e, time) ==
    LET wasPlaying == getState(e).isPlaying
        duration == getState(e).duration
        e1 == [e EXCEPT !.pausedAt = ClampSeek(time, duration),
                        !.raf = FALSE]
        e2 == StopSources(e1, "seek", RapidSeek)
        e3 == updateState(e2, [currentTime |-> e2.pausedAt])
    IN  IF wasPlaying THEN startPlaybackFromPosition(e3, e3.pausedAt) ELSE e3

\* seek(time), up to the timer its `finally` sets
seekBody(e, time) ==
    LET wasPlaying == getState(e).isPlaying
        duration == getState(e).duration
        e1 == [e EXCEPT !.pausedAt = ClampSeek(time, duration),
                        !.raf = FALSE]            \* stopTimeUpdates()
        e2 == StopSources(e1, "seek", RapidSeek)
        e3 == updateState(e2, [currentTime |-> e2.pausedAt,
                               isPlaying |-> wasPlaying])
    IN  IF wasPlaying THEN startPlaybackFromPosition(e3, e3.pausedAt) ELSE e3

\* a seek() that sets the timeout inside `try`, so only when nothing threw
SeekTimerInTry(time) ==
    /\ Commit(seekBody(Eng, time))
    /\ isSeeking' = TRUE
    /\ timers' = IF seekBody(Eng, time).threw THEN timers
                 ELSE Append(timers, [left |-> SeekGuardDelay, rapid |-> RapidSeek])
    /\ ev' = [NextEv EXCEPT !.op = "seek", !.sincePlay = FALSE, !.was = SomeSource(tracks),
                          !.arg = time, !.rapid = RapidSeek,
                          !.failed = seekBody(Eng, time).threw,
                          !.threw = seekBody(Eng, time).threw,
                          !.pos = time]
    /\ calls' = calls + 1
    /\ UNCHANGED <<poll, retry, upload, trackStates, masterGainNode,
                   audioContext, clock, stateChangeCallback, orphans, loads,
                   playWaiting>>

\* seek(time): isSeeking is set, the body runs, and `finally` sets the timeout
\* whether or not the body threw
Seek(time) ==
    /\ Commit(seekBody(Eng, time))
    /\ isSeeking' = TRUE
    /\ timers' = Append(timers, [left |-> SeekGuardDelay, rapid |-> RapidSeek])
    /\ ev' = [NextEv EXCEPT !.op = "seek", !.sincePlay = FALSE, !.was = SomeSource(tracks),
                          !.arg = time, !.rapid = RapidSeek,
                          !.failed = seekBody(Eng, time).threw,
                          !.threw = seekBody(Eng, time).threw,
                          !.pos = time]
    /\ calls' = calls + 1
    /\ UNCHANGED <<poll, retry, upload, trackStates, masterGainNode,
                   audioContext, clock, stateChangeCallback, orphans, loads,
                   playWaiting>>

RECURSIVE BagSum(_, _)
BagSum(B, S) ==
    IF S = {} THEN 0
    ELSE LET x == CHOOSE y \in S : TRUE IN B[x] + BagSum(B, S \ {x})

\* the oldest timeout is gone: the places in `timers` move down by one
GuardFired(x) == [x EXCEPT !.guard = Max(0, @ - 1)]

\* the pending 'ended' events, each with its place in `timers` moved down
GuardsFired(B) ==
    [y \in {GuardFired(x) : x \in BagToSet(B)} |->
        BagSum(B, {x \in BagToSet(B) : GuardFired(x) = y})]

\* setTimeout(() => { this.isSeeking = false }, 50) comes due
GuardTimeout ==
    /\ timers # <<>>
    /\ timers[1].left = 0
    /\ isSeeking' = FALSE
    /\ timers' = Tail(timers)
    /\ ended' = GuardsFired(ended)
    /\ snaps' = <<>>
    /\ UNCHANGED hook
    /\ ev' = [NextEv EXCEPT !.op = "guardTimeout", !.was = SomeSource(tracks)]
    /\ UNCHANGED <<poll, retry, upload, trackStates,
                   masterGainNode, audioContext, clock, tracks, startTime, pausedAt,
                   animationFrameId, stateChangeCallback, orphans, loads,
                   playWaiting, calls>>

\* the onended handlers: play() installs `if (getState().isPlaying) pause()`,
\* startPlaybackFromPosition `if (!isSeeking && getState().isPlaying) pause()`
CallsPause(e, kind) ==
    IF kind = "play" THEN getState(e).isPlaying
    ELSE ~isSeeking /\ getState(e).isPlaying

onended(e, kind) == IF CallsPause(e, kind) THEN pauseBody(e) ELSE e

\* the 'ended' event of a discarded source is delivered.
\* rapid: a seek of a rapid sequence discarded the source; inGuard: that
\* seek's timeout is still pending; byPlay: a play() discarded the source
OnEndedDiscarded(x) ==
    /\ BagIn(x, ended)
    /\ LET e == [Eng EXCEPT !.ended = @ (-) SetToBag({x})]
       IN  /\ Commit(onended(e, x.kind))
           /\ ev' = [NextEv EXCEPT
                       !.op = "onended", !.was = SomeSource(tracks),
                       !.arg = 1,
                       !.paused = (CallsPause(e, x.kind) /\ ~isSeeking),
                       !.rapid = (x.bySeek /\ x.rapid),
                       !.byPlay = x.byPlay,
                       !.inGuard = (x.guard > 0)]
    /\ UNCHANGED <<poll, retry, upload, trackStates, masterGainNode,
                   audioContext, clock, stateChangeCallback, isSeeking, timers,
                   orphans, loads, playWaiting, calls>>

\* the source of track i has played its buffer out: its 'ended' event
OnEndedNatural(i) ==
    /\ i \in 1..Len(tracks)
    /\ tracks[i].source.on
    /\ tracks[i].source.started
    /\ ~tracks[i].source.fired
    /\ clock >= tracks[i].source.endAt
    /\ LET e == [Eng EXCEPT !.tracks[i].source.fired = TRUE]
       IN  /\ Commit(onended(e, tracks[i].source.kind))
           /\ ev' = [NextEv EXCEPT
                       !.op = "onended", !.was = SomeSource(tracks),
                       !.arg = 2,
                       !.paused = (CallsPause(e, tracks[i].source.kind) /\ ~isSeeking)]
    /\ UNCHANGED <<poll, retry, upload, trackStates, masterGainNode,
                   audioContext, clock, stateChangeCallback, isSeeking, timers,
                   orphans, loads, playWaiting, calls>>

\* a source no track refers to has played its buffer out: its 'ended' event
OnEndedOrphan(o) ==
    /\ BagIn(o, orphans)
    /\ clock >= o.endAt
    /\ orphans' = orphans (-) SetToBag({o})
    /\ Commit(onended(Eng, o.kind))
    /\ ev' = [NextEv EXCEPT
                !.op = "onended", !.was = SomeSource(tracks),
                !.arg = 3,
                !.paused = (CallsPause(Eng, o.kind) /\ ~isSeeking)]
    /\ UNCHANGED <<poll, retry, upload, trackStates, masterGainNode,
                   audioContext, clock, stateChangeCallback, isSeeking, timers,
                   loads, playWaiting, calls>>

\* whether updateTime finds the end of the track reached
AtEnd(e) ==
    /\ getCurrentTime(SomeSource(e.tracks), e.startTime, e.pausedAt)
         >= FirstBufferDuration(e.tracks)
    /\ FirstBufferDuration(e.tracks) > 0

\* updateTime, the requestAnimationFrame callback of startTimeUpdates
updateTime(e) ==
    LET isPlaying == SomeSource(e.tracks)
        currentTime == getCurrentTime(isPlaying, e.startTime, e.pausedAt)
        duration == FirstBufferDuration(e.tracks)
    IN  IF AtEnd(e)
        THEN LET e1 == pauseBody([e EXCEPT !.raf = FALSE])
                 e2 == [e1 EXCEPT !.pausedAt = duration]
             IN  updateState(e2, [currentTime |-> duration, isPlaying |-> FALSE])
        ELSE LET e1 == updateState(e, [currentTime |-> currentTime])
             IN  [e1 EXCEPT !.raf = isPlaying]

\* ev.arg: 1 when the frame found the end of the track reached
Frame ==
    /\ animationFrameId
    /\ Commit(updateTime(Eng))
    /\ ev' = [NextEv EXCEPT
                !.op = "frame", !.was = SomeSource(tracks),
                !.arg = IF AtEnd(Eng) THEN 1 ELSE 0,
                !.paused = (AtEnd(Eng) /\ ~isSeeking)]
    /\ UNCHANGED <<poll, retry, upload, trackStates, masterGainNode,
                   audioContext, clock, stateChangeCallback, isSeeking, timers,
                   orphans, loads, playWaiting, calls>>

\* 10 ms pass: the host clock advances while the context runs, and the
\* pending timeouts come closer
Tick ==
    /\ \/ audioContext = "running"
       \/ audioContext # "running" /\ \E i \in 1..Len(timers) : timers[i].left > 0
       \/ audioContext = "suspended" /\ hook.on /\ hook.since <= ThrottleDelay
    /\ clock' = IF audioContext = "running" THEN clock + 1 ELSE clock
    /\ timers' = [i \in 1..Len(timers) |->
                     [timers[i] EXCEPT !.left = Max(0, @ - 1)]]
    /\ snaps' = <<>>
    /\ hook' = Elapse(hook)
    /\ ev' = [NextEv EXCEPT !.op = "tick", !.was = SomeSource(tracks)]
    /\ UNCHANGED <<poll, retry, upload, trackStates, masterGainNode,
                   audioContext, tracks, startTime, pausedAt, animationFrameId,
                   stateChangeCallback, isSeeking, ended, orphans, loads,
                   playWaiting, calls>>

\* ------------------------------------------------------------------ gain
\* a gain written from the volume alone
updateTrackGainVolumeOnly(trk) ==
    IF trk.gainNode # NoGainNode
    THEN [trk EXCEPT !.gainNode = TrackGain(FALSE, trk.volume)]
    ELSE trk

\* updateTrackGain(track): written only when the track has a gain node
updateTrackGain(trk) ==
    IF trk.gainNode # NoGainNode
    THEN [trk EXCEPT !.gainNode = TrackGain(trk.isMuted, trk.volume)]
    ELSE trk

\* Math.max(0, Math.min(100, volume * 100)), `volume` given in hundredths
VolumePercent(volume) == Max(0, Min(100, volume))

\* setTrackVolume(trackName, volume), `volume` given in hundredths
SetTrackVolume(trackName, volume) ==
    /\ tracks' = [i \in 1..Len(tracks) |->
                     IF tracks[i].name = trackName
                     THEN updateTrackGain(
                              [tracks[i] EXCEPT !.volume = VolumePercent(volume)])
                     ELSE tracks[i]]
    /\ snaps' = <<>>
    /\ UNCHANGED hook
    /\ ev' = [NextEv EXCEPT !.op = "setTrackVolume", !.was = SomeSource(tracks),
                          !.name = trackName, !.arg = volume]
    /\ calls' = calls + 1
    /\ UNCHANGED <<poll, retry, upload, trackStates,
                   masterGainNode, audioContext, clock, startTime, pausedAt,
                   animationFrameId, stateChangeCallback, isSeeking, timers,
                   ended, orphans, loads, playWaiting>>

\* setTrackMuted(trackName, muted)
SetTrackMuted(trackName, muted) ==
    /\ tracks' = [i \in 1..Len(tracks) |->
                     IF tracks[i].name = trackName
                     THEN updateTrackGain([tracks[i] EXCEPT !.isMuted = muted])
                     ELSE tracks[i]]
    /\ snaps' = <<>>
    /\ UNCHANGED hook
    /\ ev' = [NextEv EXCEPT !.op = "setTrackMuted", !.was = SomeSource(tracks),
                          !.name = trackName, !.arg = IF muted THEN 1 ELSE 0]
    /\ calls' = calls + 1
    /\ UNCHANGED <<poll, retry, upload, trackStates,
                   masterGainNode, audioContext, clock, startTime, pausedAt,
                   animationFrameId, stateChangeCallback, isSeeking, timers,
                   ended, orphans, loads, playWaiting>>

\* (Math.max(0, Math.min(100, volume)) / 100) ** 2, in units of 1/10000
MasterGain(volume) == Max(0, Min(100, volume)) * Max(0, Min(100, volume))

\* setMasterVolume(volume)
SetMasterVolume(volume) ==
    /\ masterGainNode' = MasterGain(volume)
    /\ snaps' = <<>>
    /\ UNCHANGED hook
    /\ ev' = [NextEv EXCEPT !.op = "setMasterVolume", !.was = SomeSource(tracks),
                          !.arg = volume]
    /\ calls' = calls + 1
    /\ UNCHANGED <<poll, retry, upload, trackStates,
                   audioContext, clock, tracks, startTime, pausedAt,
                   animationFrameId, stateChangeCallback, isSeeking, timers,
                   ended, orphans, loads, playWaiting>>

\* ---------------------------------------------------------------- dispose
\* a dispose() that leaves the frame callback to stop()
DisposeByStopOnly ==
    /\ audioContext # "closed"
    /\ LET e1 == stopBody(Eng)
       IN  Commit([e1 EXCEPT !.tracks = <<>>])
    /\ audioContext' = "closed"
    /\ masterGainNode' = NoGainNode
    /\ stateChangeCallback' = FALSE
    /\ orphans' = EmptyBag
    /\ ev' = [NextEv EXCEPT !.op = "dispose", !.was = SomeSource(tracks)]
    /\ UNCHANGED <<poll, retry, upload, trackStates,
                   clock, isSeeking, timers, loads, playWaiting, calls>>

\* dispose(): stop(), stopTimeUpdates(), audioContext.close(), tracks.clear(),
\* and the context, the master gain and the listener set to null. The snapshot
\* of stop() still goes to the listener. A closed context renders nothing:
\* the sources that were not stopped are gone with it, and only the 'ended'
\* events of sources already stopped are left to be delivered.
Dispose ==
    /\ audioContext # "closed"
    /\ LET e1 == stopBody(Eng)
       IN  Commit([e1 EXCEPT !.raf = FALSE, !.tracks = <<>>])
    /\ audioContext' = "closed"
    /\ masterGainNode' = NoGainNode
    /\ stateChangeCallback' = FALSE
    /\ orphans' = EmptyBag
    /\ ev' = [NextEv EXCEPT !.op = "dispose", !.was = SomeSource(tracks)]
    /\ UNCHANGED <<poll, retry, upload, trackStates,
                   clock, isSeeking, timers, loads, playWaiting, calls>>

\* a play() suspended at `await resume()` settles after dispose(): the await
\* rejects, or the line after it reads the state of a null context and throws
PlayAbandoned ==
    /\ audioContext = "closed"
    /\ playWaiting > 0
    /\ playWaiting' = playWaiting - 1
    /\ snaps' = <<>>
    /\ UNCHANGED hook
    /\ ev' = [NextEv EXCEPT !.op = "playAbandoned", !.was = SomeSource(tracks),
                          !.threw = TRUE]
    /\ UNCHANGED <<poll, retry, upload, trackStates,
                   masterGainNode, audioContext, clock, tracks, startTime,
                   pausedAt, animationFrameId, stateChangeCallback, isSeeking, timers,
                   ended, orphans, loads, calls>>

\* ------------------------------------------------- the hook's track states
\* trackStates[trackName] of a value of trackStates: the place of the entry,
\* 0 when there is none
StateIndex(states, trackName) ==
    IF \E i \in 1..Len(states) : states[i].name = trackName
    THEN CHOOSE i \in 1..Len(states) : states[i].name = trackName
    ELSE 0

\* engine.setTrackMuted(trackName, muted) on the map
setTrackMuted(trks, trackName, muted) ==
    [i \in 1..Len(trks) |->
        IF trks[i].name = trackName
        THEN updateTrackGain([trks[i] EXCEPT !.isMuted = muted])
        ELSE trks[i]]

\* toggleTrackMuted(trackName) of useAudioPlayer: the state of the track is
\* read from the trackStates of the last render, and setTrackMuted of the hook
\* passes its negation to the engine and hands getTrackStates() to
\* setTrackStates
ToggleTrackMuted(trackName) ==
    /\ LET i == StateIndex(trackStates.rendered, trackName)
           trks == IF i = 0 THEN tracks
                   ELSE setTrackMuted(tracks, trackName, ~trackStates.rendered[i].isMuted)
       IN  /\ tracks' = trks
           /\ trackStates' = IF i = 0 THEN trackStates ELSE SetTrackStates(trks)
    /\ snaps' = <<>>
    /\ UNCHANGED hook
    /\ ev' = [NextEv EXCEPT !.op = "toggleTrackMuted", !.was = SomeSource(tracks),
                          !.name = trackName]
    /\ calls' = calls + 1
    /\ UNCHANGED <<poll, retry, upload, masterGainNode, audioContext, clock, startTime, pausedAt,
                   animationFrameId, stateChangeCallback, isSeeking, timers,
                   ended, orphans, loads, playWaiting>>

\* React renders: the callbacks now close over the value last set
Render ==
    /\ trackStates.on
    /\ trackStates.rendered # trackStates.latest
    /\ trackStates' = [trackStates EXCEPT !.rendered = trackStates.latest]
    /\ snaps' = <<>>
    /\ UNCHANGED hook
    /\ ev' = [NextEv EXCEPT !.op = "render", !.was = SomeSource(tracks)]
    /\ UNCHANGED <<poll, retry, upload, masterGainNode, audioContext, clock, tracks, startTime,
                   pausedAt, animationFrameId, stateChangeCallback, isSeeking, timers,
                   ended, orphans, loads, playWaiting, calls>>

\* ------------------------------------------------------ the environment
\* the calls below are made by the owner of the engine (the useAudioPlayer
\* hook and the components); the bounds cap what one run may do
LoadsQuiet == loads # <<>> /\ \A k \in 1..Len(loads) : loads[k].pending = {}

\* one loadTracks(); play, pause, stop and seek once its decodes are over
Next ==
    \/ loads = <<>> /\ \E urls \in UrlLists : LoadTracks(urls)
    \/ \E name \in TrackNames, result \in Outcomes : DecodeDone(1, name, result)
    \/ calls < MaxCalls /\ LoadsQuiet /\ Play
    \/ calls < MaxCalls /\ LoadsQuiet /\ playWaiting = 0 /\ PlaySuspend
    \/ Resumed
    \/ PlayContinue
    \/ calls < MaxCalls /\ LoadsQuiet /\ Pause
    \/ calls < MaxCalls /\ LoadsQuiet /\ Stop
    \/ calls < MaxCalls /\ LoadsQuiet /\ \E time \in SeekTimes : Seek(time)
    \/ GuardTimeout
    \/ \E x \in BagToSet(ended) : OnEndedDiscarded(x)
    \/ \E i \in 1..Len(tracks) : OnEndedNatural(i)
    \/ Frame
    \/ clock < MaxClock /\ Tick

Spec == Init /\ [][Next]_vars

\* loadTracks() repeated, every call made at any moment
NextLoad ==
    \/ Len(loads) < MaxLoads /\ \E urls \in UrlLists : LoadTracks(urls)
    \/ \E k \in 1..MaxLoads, name \in TrackNames, result \in Outcomes :
          DecodeDone(k, name, result)
    \/ calls < MaxLoadCalls /\ Play
    \/ calls < MaxLoadCalls /\ playWaiting = 0 /\ PlaySuspend
    \/ Resumed
    \/ PlayContinue
    \/ calls < MaxLoadCalls /\ Pause
    \/ calls < MaxLoadCalls /\ Stop
    \/ calls < MaxLoadCalls /\ \E time \in SeekTimes : Seek(time)
    \/ GuardTimeout
    \/ \E x \in BagToSet(ended) : OnEndedDiscarded(x)
    \/ \E i \in 1..Len(tracks) : OnEndedNatural(i)
    \/ \E o \in BagToSet(orphans) : OnEndedOrphan(o)
    \/ Frame
    \/ clock < MaxLoadClock /\ Tick

SpecLoad == Init /\ [][NextLoad]_vars

\* one loadTracks(); the volume and mute calls made at any moment, a few
\* playback calls around them
NextGain ==
    \/ loads = <<>> /\ \E urls \in UrlLists : LoadTracks(urls)
    \/ \E name \in TrackNames, result \in Outcomes : DecodeDone(1, name, result)
    \/ calls < MaxGainCalls /\ \E name \in TrackNames, volume \in VolumeArgs :
          SetTrackVolume(name, volume)
    \/ calls < MaxGainCalls /\ \E name \in TrackNames, muted \in BOOLEAN :
          SetTrackMuted(name, muted)
    \/ calls < MaxGainCalls /\ \E volume \in MasterVolumeArgs : SetMasterVolume(volume)
    \/ calls < MaxGainCalls /\ Play
    \/ calls < MaxGainCalls /\ playWaiting = 0 /\ PlaySuspend
    \/ Resumed
    \/ PlayContinue
    \/ calls < MaxGainCalls /\ Pause
    \/ calls < MaxGainCalls /\ Stop
    \/ calls < MaxGainCalls /\ \E time \in SeekTimes : Seek(time)
    \/ GuardTimeout
    \/ \E x \in BagToSet(ended) : OnEndedDiscarded(x)
    \/ \E i \in 1..Len(tracks) : OnEndedNatural(i)
    \/ Frame
    \/ clock < MaxGainClock /\ Tick

SpecGain == Init /\ [][NextGain]_vars

\* one loadTracks() of a short stem beside a long one, then playback calls
NextShort ==
    \/ loads = <<>> /\ \E urls \in ShortUrlLists : LoadTracks(urls)
    \/ \E name \in ShortTrackNames, result \in Outcomes : DecodeDone(1, name, result)
    \/ calls < MaxShortCalls /\ LoadsQuiet /\ Play
    \/ calls < MaxShortCalls /\ LoadsQuiet /\ playWaiting = 0 /\ PlaySuspend
    \/ Resumed
    \/ PlayContinue
    \/ calls < MaxShortCalls /\ LoadsQuiet /\ Pause
    \/ calls < MaxShortCalls /\ LoadsQuiet /\ Stop
    \/ calls < MaxShortCalls /\ LoadsQuiet /\ \E time \in SeekTimes : Seek(time)
    \/ GuardTimeout
    \/ \E x \in BagToSet(ended) : OnEndedDiscarded(x)
    \/ \E i \in 1..Len(tracks) : OnEndedNatural(i)
    \/ Frame
    \/ clock < MaxShortClock /\ Tick

SpecShort == Init /\ [][NextShort]_vars

\* one loadTracks(), then playback calls, the listener's throttle followed
NextHook ==
    \/ loads = <<>> /\ \E urls \in UrlLists : LoadTracks(urls)
    \/ \E name \in TrackNames, result \in Outcomes : DecodeDone(1, name, result)
    \/ calls < MaxHookCalls /\ LoadsQuiet /\ Play
    \/ calls < MaxHookCalls /\ LoadsQuiet /\ playWaiting = 0 /\ PlaySuspend
    \/ Resumed
    \/ PlayContinue
    \/ calls < MaxHookCalls /\ LoadsQuiet /\ Pause
    \/ calls < MaxHookCalls /\ LoadsQuiet /\ Stop
    \/ calls < MaxHookCalls /\ LoadsQuiet /\ \E time \in SeekTimes : Seek(time)
    \/ GuardTimeout
    \/ \E x \in BagToSet(ended) : OnEndedDiscarded(x)
    \/ \E i \in 1..Len(tracks) : OnEndedNatural(i)
    \/ Frame
    \/ clock < MaxHookClock /\ Tick

SpecHook == InitHook /\ [][NextHook]_vars

\* one loadTracks() of a short stem beside a long one, then playback calls;
\* time goes on for as long as a timeout is pending
NextLive ==
    \/ loads = <<>> /\ \E urls \in ShortUrlLists : LoadTracks(urls)
    \/ \E name \in ShortTrackNames, result \in Outcomes : DecodeDone(1, name, result)
    \/ calls < MaxLiveCalls /\ LoadsQuiet /\ Play
    \/ calls < MaxLiveCalls /\ LoadsQuiet /\ playWaiting = 0 /\ PlaySuspend
    \/ Resumed
    \/ PlayContinue
    \/ calls < MaxLiveCalls /\ LoadsQuiet /\ Pause
    \/ calls < MaxLiveCalls /\ LoadsQuiet /\ Stop
    \/ calls < MaxLiveCalls /\ LoadsQuiet /\ \E time \in SeekTimes : Seek(time)
    \/ GuardTimeout
    \/ \E x \in BagToSet(ended) : OnEndedDiscarded(x)
    \/ \E i \in 1..Len(tracks) : OnEndedNatural(i)
    \/ Frame
    \/ (clock < MaxLiveClock \/ \E i \in 1..Len(timers) : timers[i].left > 0) /\ Tick

\* The host's event loop: time passes, and a timeout that is due is run.
SpecLive ==
    /\ Init
    /\ [][NextLive]_vars
    /\ WF_vars((\E i \in 1..Len(timers) : timers[i].left > 0) /\ Tick)
    /\ WF_vars(GuardTimeout)

\* one loadTracks(), playback calls at any moment, and dispose() at any
\* moment; the owner drops the engine with it and makes no call after
Alive == audioContext # "closed"

NextDispose ==
    \/ Alive /\ loads = <<>> /\ \E urls \in UrlLists : LoadTracks(urls)
    \/ \E name \in TrackNames, result \in Outcomes : DecodeDone(1, name, result)
    \/ calls < MaxDisposeCalls /\ Play
    \/ calls < MaxDisposeCalls /\ playWaiting = 0 /\ PlaySuspend
    \/ Resumed
    \/ PlayContinue
    \/ PlayAbandoned
    \/ Alive /\ calls < MaxDisposeCalls /\ Pause
    \/ Alive /\ calls < MaxDisposeCalls /\ Stop
    \/ Alive /\ calls < MaxDisposeCalls /\ \E time \in SeekTimes : Seek(time)
    \/ Dispose
    \/ GuardTimeout
    \/ \E x \in BagToSet(ended) : OnEndedDiscarded(x)
    \/ \E i \in 1..Len(tracks) : OnEndedNatural(i)
    \/ Frame
    \/ clock < MaxDisposeClock /\ Tick

SpecDispose == Init /\ [][NextDispose]_vars

\* one loadTracks(), then toggleTrackMuted() calls and renders in any order
NextToggle ==
    \/ loads = <<>> /\ \E urls \in UrlLists : LoadTracks(urls)
    \/ \E name \in TrackNames, result \in Outcomes : DecodeDone(1, name, result)
    \/ calls < MaxToggleCalls /\ \E name \in TrackNames : ToggleTrackMuted(name)
    \/ Render

SpecToggle == InitToggle /\ [][NextToggle]_vars

\* --------------------------------------------------------- the API client
\* What one invocation of the operation passed to retryWithBackoff does: it
\* resolves, or it rejects with one of the client's errors.
OpResults ==
    {[kind |-> "ok", statusCode |-> 0],
     [kind |-> "ApiError", statusCode |-> 404],
     [kind |-> "ApiError", statusCode |-> 429],
     [kind |-> "ApiError", statusCode |-> 500],
     [kind |-> "ValidationError", statusCode |-> 0],
     [kind |-> "NetworkError", statusCode |-> 0]}

\* the operation, as what its first, second, ... invocation does
Operations == [1..MaxRetriesArg + 2 -> OpResults]

\* maxRetries: -1 keeps the loop from being entered
MaxRetriesArgs == (0 - 1)..MaxRetriesArg

BaseDelays == {100}

\* retryWithBackoff(operation, maxRetries, baseDelay) is called
RetryCalls ==
    {[RetryIdle EXCEPT !.maxRetries = n, !.baseDelay = d, !.operation = op,
                       !.state = "running"] :
        n \in MaxRetriesArgs, d \in BaseDelays, op \in Operations}

\* an error test that lets a ValidationError be retried
NonRetryableApiOnly(error) ==
    /\ error.kind = "ApiError"
    /\ error.statusCode >= 400
    /\ error.statusCode < 500
    /\ error.statusCode # 429

\* the errors the catch block rethrows at once
NonRetryable(error) ==
    \/ /\ error.kind = "ApiError"
       /\ error.statusCode >= 400
       /\ error.statusCode < 500
       /\ error.statusCode # 429
    \/ error.kind = "ValidationError"

\* baseDelay * Math.pow(2, attempt)
Backoff(baseDelay, attempt) == baseDelay * 2^attempt

\* One pass of the loop body: the operation is invoked and awaited. The value
\* it resolves with is known by the number of the invocation, and so is the
\* error it rejects with (the field `at`).
RetryAttempt ==
    /\ retry.state = "running"
    /\ retry.attempt <= retry.maxRetries
    /\ LET n == retry.invoked + 1
           result == retry.operation[n]
           error == [kind |-> result.kind, statusCode |-> result.statusCode, at |-> n]
       IN  retry' =
             IF result.kind = "ok"
             THEN [retry EXCEPT !.invoked = n, !.state = "returned", !.value = n]
             ELSE IF NonRetryable(error) \/ retry.attempt = retry.maxRetries
             THEN [retry EXCEPT !.invoked = n, !.lastError = error, !.state = "threw"]
             ELSE [retry EXCEPT !.invoked = n, !.lastError = error, !.state = "waiting",
                                !.delay = Backoff(retry.baseDelay, retry.attempt)]
    /\ UNCHANGED <<poll, upload, engineVars>>

\* the backoff timeout fires: attempt++
RetryWake ==
    /\ retry.state = "waiting"
    /\ retry' = [retry EXCEPT !.attempt = @ + 1, !.state = "running"]
    /\ UNCHANGED <<poll, upload, engineVars>>

\* the loop condition fails: throw lastError
RetryExit ==
    /\ retry.state = "running"
    /\ retry.attempt > retry.maxRetries
    /\ retry' = [retry EXCEPT !.state = "threw"]
    /\ UNCHANGED <<poll, upload, engineVars>>

\* A string is the sequence of its characters, a MIME type the sequence of
\* the pieces it is written from here.
AllowedTypes ==
    {<<"audio/mpeg">>, <<"audio/wav">>, <<"audio/mp4">>, <<"audio/flac">>,
     <<"audio/x-m4a">>}

AllowedExtensions ==
    {<<".", "m", "p", "3">>, <<".", "w", "a", "v">>, <<".", "m", "4", "a">>,
     <<".", "f", "l", "a", "c">>}

\* the files handed to uploadFile
FileSizes == {0, 1, MaxSize, MaxSize + 1}

FileTypes ==
    {<<>>, <<"text/plain">>, <<"audio/mpeg">>, <<"audio/wav", "e">>,
     <<"audio/x-wav">>}

FileNames ==
    {<<"a", ".", "m", "p", "3">>, <<"a", ".", "M", "P", "3">>,
     <<"a", ".", "t", "x", "t">>, <<"m", "p", "3">>,
     <<"a", ".", "w", "a", "v", ".", "t", "x", "t">>,
     <<"a", ".", "t", "x", "t", ".", "f", "l", "a", "c">>,
     <<".", "w", "a", "v">>}

Files == [size : FileSizes, type : FileTypes, name : FileNames]

\* uploadFile(file) is called
UploadCalls == {[UploadIdle EXCEPT !.file = f, !.state = "called"] : f \in Files}

StartsWith(str, prefix) ==
    Len(prefix) <= Len(str) /\ SubSeq(str, 1, Len(prefix)) = prefix

LowerChar(c) ==
    CASE c = "M" -> "m" [] c = "P" -> "p" [] OTHER -> c

ToLowerCase(str) == [i \in 1..Len(str) |-> LowerChar(str[i])]

\* the index from 0 of the last c in str, -1 when there is none
LastIndexOf(str, c) ==
    IF \E i \in 1..Len(str) : str[i] = c
    THEN (CHOOSE i \in 1..Len(str) :
             str[i] = c /\ \A j \in (i + 1)..Len(str) : str[j] # c) - 1
    ELSE 0 - 1

\* substring(start): a negative start counts as 0
Substring(str, start) == SubSeq(str, Max(0, start) + 1, Len(str))

\* allowedTypes.some(type => file.type === type || file.type.startsWith(type))
AllowedType(type) ==
    \E allowed \in AllowedTypes : type = allowed \/ StartsWith(type, allowed)

\* a validation that lets an empty file through
validateFileNoEmptyCheck(file) ==
    IF file.size > MaxSize THEN "File size exceeds 100MB limit"
    ELSE IF /\ ~AllowedType(file.type)
            /\ Substring(ToLowerCase(file.name), LastIndexOf(file.name, "."))
                  \notin AllowedExtensions
    THEN "Invalid file format"
    ELSE ""

\* validateFile(file): the message of the ValidationError it throws, "" when
\* it returns
validateFile(file) ==
    IF file.size > MaxSize THEN "File size exceeds 100MB limit"
    ELSE IF /\ ~AllowedType(file.type)
            /\ Substring(ToLowerCase(file.name), LastIndexOf(file.name, "."))
                  \notin AllowedExtensions
    THEN "Invalid file format"
    ELSE IF file.size = 0 THEN "File is empty"
    ELSE ""

\* uploadFile(file) up to xhr.send(): a throw of validateFile rejects the call
UploadFile ==
    /\ upload.state = "called"
    /\ LET message == validateFile(upload.file)
       IN  upload' =
             IF message # ""
             THEN [upload EXCEPT !.state = "rejected",
                                 !.error = [kind |-> "ValidationError",
                                            message |-> message]]
             ELSE [upload EXCEPT !.state = "sent", !.requests = @ + 1]
    /\ UNCHANGED <<poll, retry, engineVars>>

\* how the request ends: onload with a status and a body, onerror, ontimeout
XhrEvents ==
    {[on |-> "load", status |-> 200, body |-> "json"],
     [on |-> "load", status |-> 400, body |-> "json error"],
     [on |-> "load", status |-> 500, body |-> "json"],
     [on |-> "load", status |-> 200, body |-> "not json"],
     [on |-> "error", status |-> 0, body |-> ""],
     [on |-> "timeout", status |-> 0, body |-> ""]}

UploadSettles(x) ==
    /\ upload.state = "sent"
    /\ upload' =
         IF x.on = "load" /\ x.body # "not json" /\ x.status >= 200 /\ x.status < 300
         THEN [upload EXCEPT !.state = "resolved"]
         ELSE IF x.on = "load" /\ x.body = "json error"
         THEN [upload EXCEPT !.state = "rejected",
                             !.error = [kind |-> "ApiError", message |-> "data.message"]]
         ELSE IF x.on = "load" /\ x.body = "json"
         THEN [upload EXCEPT !.state = "rejected",
                             !.error = [kind |-> "ApiError", message |-> "Upload failed"]]
         ELSE IF x.on = "load"
         THEN [upload EXCEPT !.state = "rejected",
                             !.error = [kind |-> "ApiError",
                                        message |-> "Invalid response format"]]
         ELSE IF x.on = "error"
         THEN [upload EXCEPT !.state = "rejected",
                             !.error = [kind |-> "NetworkError",
                                        message |-> "Upload failed due to network error"]]
         ELSE [upload EXCEPT !.state = "rejected",
                             !.error = [kind |-> "NetworkError",
                                        message |-> "Upload timeout"]]
    /\ UNCHANGED <<poll, retry, engineVars>>

\* one call of the API client, retryWithBackoff or uploadFile, on its inputs
InitApi ==
    /\ InitEngine
    /\ hook = HookOff
    /\ trackStates = TrackStatesOff
    /\ poll = PollIdle
    /\ \/ retry \in RetryCalls /\ upload = UploadIdle
       \/ retry = RetryIdle /\ upload \in UploadCalls

NextApi ==
    \/ RetryAttempt
    \/ RetryWake
    \/ RetryExit
    \/ UploadFile
    \/ \E x \in XhrEvents : UploadSettles(x)

SpecApi == InitApi /\ [][NextApi]_vars

\* ---------------------------------------------------- following a job
\* JobStatus
Statuses == {"queued", "processing", "completed", "completed_with_errors", "failed"}

\* what api.getJobStatus(jobId) settles with: a response, or a rejection
FetchResults == Statuses \cup {"error"}

\* the state the callbacks of the last render closed over
Closure(p) == [isPolling |-> p.isPolling, retryCount |-> p.retryCount]

\* an awaited fetchStatus(): who awaits it, and what its continuation closed over
FetchTask(kind, c) ==
    [kind |-> kind, mounted |-> TRUE, isPolling |-> c.isPolling,
     retryCount |-> c.retryCount, ref |-> FALSE, delay |-> 0]

\* pollIntervalRef.current = setTimeout(pollOnce, delay)
SetTimeout(ts, c, delay) ==
    Append([i \in 1..Len(ts) |-> [ts[i] EXCEPT !.ref = FALSE]],
           [kind |-> "timeout", mounted |-> TRUE, isPolling |-> c.isPolling,
            retryCount |-> c.retryCount, ref |-> TRUE, delay |-> delay])

\* clearTimeout(pollIntervalRef.current)
ClearTimeout(ts) == SelectSeq(ts, LAMBDA t : ~(t.kind = "timeout" /\ t.ref))

\* mounted = false, for the effect run that is cleaned up
Unmounted(ts) ==
    [i \in 1..Len(ts) |->
        IF ts[i].kind = "initialize" THEN [ts[i] EXCEPT !.mounted = FALSE] ELSE ts[i]]

RemoveTask(ts, i) == SubSeq(ts, 1, i - 1) \o SubSeq(ts, i + 1, Len(ts))

RECURSIVE Pow2(_)
Pow2(n) == IF n = 0 THEN 1 ELSE 2 * Pow2(n - 1)

\* fetchStatus() once api.getJobStatus has settled with x
fetchStatus(p, x) ==
    IF ~p.isMountedRef THEN p
    ELSE IF x = "error"
    THEN [p EXCEPT !.error = TRUE, !.retryCount = @ + 1, !.fetchFailed = TRUE]
    ELSE [p EXCEPT !.status = x, !.error = FALSE, !.retryCount = 0]

\* handleCompletion(), the results fetched: the toast, onComplete, the redirect
handleCompletion(p) ==
    IF p.isMountedRef THEN [p EXCEPT !.handled = "completion"] ELSE p

handleFailure(p) == [p EXCEPT !.handled = "failure"]

\* pollOnce() of the render that closed over c, up to its await
pollOnce(p, c) ==
    IF ~c.isPolling \/ ~p.isMountedRef THEN p
    ELSE [p EXCEPT !.tasks = Append(@, FetchTask("pollOnce", c)), !.fetches = @ + 1]

\* pollOnce() of the render that closed over c, from its await on
pollOnceSettled(p, c, x) ==
    LET q == fetchStatus(p, x) IN
    IF ~p.isMountedRef THEN q
    ELSE IF x = "error"
    THEN IF c.retryCount < MaxRetries
         THEN IF c.isPolling
              THEN [q EXCEPT !.tasks = SetTimeout(@, c,
                        Min(PollInterval * Pow2(c.retryCount), MaxRetryDelay))]
              ELSE q
         ELSE [q EXCEPT !.isPolling = FALSE, !.error = TRUE]
    ELSE IF x \in {"completed", "completed_with_errors"}
    THEN handleCompletion([q EXCEPT !.isPolling = FALSE])
    ELSE IF x = "failed"
    THEN handleFailure([q EXCEPT !.isPolling = FALSE])
    ELSE IF c.isPolling
    THEN [q EXCEPT !.tasks = SetTimeout(@, c, PollInterval)]
    ELSE q

\* startPolling() of the render that closed over c
startPolling(p, c) ==
    IF c.isPolling THEN p
    ELSE pollOnce([p EXCEPT !.isPolling = TRUE, !.error = FALSE, !.retryCount = 0], c)

stopPolling(p) == [p EXCEPT !.isPolling = FALSE, !.tasks = ClearTimeout(@)]

\* initialize() of the effect run t belongs to, from its await on
initializeSettled(p, t, x) ==
    LET q == fetchStatus(p, x)
        r == IF ~p.isMountedRef \/ ~t.mounted \/ x = "error" THEN q
             ELSE IF x \in {"processing", "queued"} THEN startPolling(q, t)
             ELSE IF x \in {"completed", "completed_with_errors"} THEN handleCompletion(q)
             ELSE handleFailure(q)
    IN  IF t.mounted THEN [r EXCEPT !.isLoading = FALSE] ELSE r

\* the effect of useJobStatus runs: initialize() up to its await
initialize(p) ==
    [p EXCEPT !.isMountedRef = TRUE, !.isLoading = TRUE,
              !.tasks = Append(@, FetchTask("initialize", Closure(p))),
              !.fetches = @ + 1]

\* the cleanup of that effect
cleanup(p) ==
    [p EXCEPT !.isMountedRef = FALSE, !.tasks = ClearTimeout(Unmounted(@))]

\* useJobStatus({ jobId }) mounted: its first render, its effect run
PollOn ==
    initialize([PollIdle EXCEPT !.on = TRUE, !.mounted = TRUE, !.isLoading = TRUE])

\* a pending task runs: a status fetch settles with x, or a poll timeout fires
TaskRuns(i, x) ==
    /\ poll.on
    /\ i \in 1..Len(poll.tasks)
    /\ LET t == poll.tasks[i]
           p == [poll EXCEPT !.tasks = RemoveTask(@, i)]
       IN  poll' = CASE t.kind = "initialize" -> initializeSettled(p, t, x)
                     [] t.kind = "pollOnce" -> pollOnceSettled(p, t, x)
                     [] OTHER -> pollOnce(p, t)
    /\ UNCHANGED <<retry, upload, engineVars>>

\* React renders the state set since the last render: isPolling or retryCount
\* differ, so pollOnce and startPolling are new callbacks and the effect,
\* which depends on startPolling, is cleaned up and run again
Rerender ==
    /\ poll.on
    /\ poll.mounted
    /\ Closure(poll) # poll.rendered
    /\ poll.fetches < MaxFetches
    /\ poll' = initialize(cleanup([poll EXCEPT !.rendered = Closure(poll)]))
    /\ UNCHANGED <<retry, upload, engineVars>>

\* the owner calls startPolling()
StartPolling ==
    /\ poll.on
    /\ poll.mounted
    /\ poll.calls < MaxPollCalls
    /\ poll' = [startPolling(poll, poll.rendered) EXCEPT !.calls = @ + 1]
    /\ UNCHANGED <<retry, upload, engineVars>>

\* the owner calls stopPolling()
StopPolling ==
    /\ poll.on
    /\ poll.mounted
    /\ poll.calls < MaxPollCalls
    /\ poll' = [stopPolling(poll) EXCEPT !.calls = @ + 1]
    /\ UNCHANGED <<retry, upload, engineVars>>

\* the owner calls retry()
RetryPolling ==
    /\ poll.on
    /\ poll.mounted
    /\ poll.calls < MaxPollCalls
    /\ poll' = [startPolling([poll EXCEPT !.error = FALSE, !.retryCount = 0],
                             poll.rendered) EXCEPT !.calls = @ + 1]
    /\ UNCHANGED <<retry, upload, engineVars>>

\* the owner calls clearError()
ClearError ==
    /\ poll.on
    /\ poll.mounted
    /\ poll.calls < MaxPollCalls
    /\ poll' = [poll EXCEPT !.error = FALSE, !.calls = @ + 1]
    /\ UNCHANGED <<retry, upload, engineVars>>

\* the component unmounts: both effects are cleaned up
Unmount ==
    /\ poll.on
    /\ poll.mounted
    /\ poll.calls < MaxPollCalls
    /\ poll' = [stopPolling(cleanup(poll)) EXCEPT !.mounted = FALSE, !.calls = @ + 1]
    /\ UNCHANGED <<retry, upload, engineVars>>

\* useJobStatus following one job
InitPoll ==
    /\ InitEngine
    /\ hook = HookOff
    /\ trackStates = TrackStatesOff
    /\ InitApiIdle
    /\ poll = PollOn

NextPoll ==
    \/ \E i \in 1..MaxFetches, x \in FetchResults : TaskRuns(i, x)
    \/ Rerender
    \/ StartPolling
    \/ StopPolling
    \/ RetryPolling
    \/ ClearError
    \/ Unmount

SpecPoll == InitPoll /\ [][NextPoll]_vars

\* ------------------------------------------------------------- the claims
Duration == FirstBufferDuration(tracks)
IsPlaying == SomeSource(tracks)

\* C1: during a rapid sequence of seek() calls made while playing, no 'ended'
\* callback of a source one of those seeks discarded, delivered while that
\* seek's guard timeout is still pending, runs pause().
C1_RapidSeeksNeverPause ==
    ~(ev.op = "onended" /\ ev.rapid /\ ev.inGuard /\ ev.paused)

\* C2: a play() call made when no track has a buffer rejects, starts no source
\* and hands the listener no snapshot with isPlaying = TRUE.
C2_PlayWithoutTracksRejects ==
    (ev.op = "play" /\ NumLoaded(tracks) = 0) =>
        /\ ev.threw
        /\ ~IsPlaying
        /\ \A i \in 1..Len(snaps) : ~snaps[i].isPlaying

\* C3: the position is within [0, duration] in every state and in every
\* snapshot handed to the listener.
C3_PositionInRange ==
    /\ getState(Eng).currentTime >= 0
    /\ getState(Eng).currentTime <= Duration
    /\ \A i \in 1..Len(snaps) :
          snaps[i].currentTime >= 0 /\ snaps[i].currentTime <= snaps[i].duration

\* the sources of track `name` that were started and have neither been
\* stopped nor played out
LiveHandles(name) ==
    Cardinality({i \in 1..Len(tracks) :
                   /\ tracks[i].name = name
                   /\ tracks[i].source.on
                   /\ tracks[i].source.started
                   /\ clock < tracks[i].source.endAt})
      + BagSum(orphans, {o \in BagToSet(orphans) :
                           o.track = name /\ clock < o.endAt})

\* C4: every track name has at most one live source.
C4_OneLiveHandlePerTrack ==
    \A name \in TrackNames : LiveHandles(name) <= 1

\* no loadTracks() or play() call is waiting at an await
NoCallInFlight ==
    /\ playWaiting = 0
    /\ \A k \in 1..Len(loads) : loads[k].pending = {}

\* C5: while isPlaying, every track with a buffer has a source, once no call
\* is in flight.
C5_PlayingMeansEveryLoadedTrackHasHandle ==
    (IsPlaying /\ NoCallInFlight) =>
        \A i \in 1..Len(tracks) : tracks[i].buffer # 0 => tracks[i].source.on

\* C6: seek(t) with t in [0, duration] hands the listener, in the same task,
\* a snapshot at position t whose isPlaying is the value from before the call,
\* and leaves isPlaying at that value.
C6_SeekPublishesTarget ==
    (ev.op = "seek" /\ ev.arg >= 0 /\ ev.arg <= Duration) =>
        /\ Len(snaps) >= 1
        /\ snaps[1].currentTime = ev.arg
        /\ snaps[1].isPlaying = ev.was
        /\ IsPlaying = ev.was

C6_Witness ==
    /\ ev.op = "seek" /\ ev.was
    /\ ev.arg > 0 /\ ev.arg <= Duration
    /\ Len(snaps) = 2

Quiescent ==
    /\ ~animationFrameId
    /\ ended = EmptyBag
    /\ orphans = EmptyBag
    /\ timers = <<>>
    /\ playWaiting = 0
    /\ \A i \in 1..Len(tracks) :
          (tracks[i].source.on /\ tracks[i].source.started) => tracks[i].source.fired

\* playback has reached the end: clock.now() - R >= duration
EndReached == Duration > 0 /\ clock - startTime >= Duration

\* the last task was the frame that found the end, or the 'ended' event of a
\* source that played out, and it paused the engine
EndOfTrackPaused ==
    /\ ev.paused
    /\ \/ ev.op = "frame" /\ ev.arg = 1
       \/ ev.op = "onended" /\ ev.arg = 2

\* C8: when playback reaches the end the engine comes to rest not playing, no
\* track holding a source, at exactly the duration: it is not left playing
\* with nothing more to run, and the end-of-track task that pauses it leaves
\* the position at the duration.
C8_EndOfTrackStopsAtDuration ==
    /\ (EndReached /\ Quiescent) => ~IsPlaying
    /\ (EndReached /\ EndOfTrackPaused) =>
          /\ ~IsPlaying
          /\ pausedAt = Duration
          /\ getState(Eng).currentTime = Duration

\* C9: seek(t) made while not playing leaves the engine not playing at
\* position t, and the play() that follows starts the source of every loaded
\* track at buffer offset t, the reported position being t.
C9_SeekWhileStoppedThenPlay ==
    /\ (ev.op = "seek" /\ ~ev.was /\ ev.arg >= 0 /\ ev.arg <= Duration) =>
          /\ ~IsPlaying
          /\ pausedAt = ev.arg
          /\ getState(Eng).currentTime = ev.arg
    /\ (ev.op = "play" /\ ev.afterSeek /\ ev.pos >= 0 /\ ev.pos <= Duration) =>
          /\ \A i \in 1..Len(tracks) :
                tracks[i].buffer # 0 =>
                   tracks[i].source.on /\ tracks[i].source.offset = ev.pos
          /\ getState(Eng).currentTime = ev.pos

C9_Witness ==
    /\ ev.op = "play" /\ ev.afterSeek
    /\ ev.pos > 0 /\ ev.pos <= Duration
    /\ IsPlaying

\* C10: a loadTracks() call of which some but not all stems fail resolves,
\* settles only when every stem has settled, and leaves the failed stems with
\* a null buffer and the others loaded.
C10_PartialFailureResolves ==
    \A k \in 1..Len(loads) :
       (loads[k].pending = {} /\ loads[k].decoded # {} /\ loads[k].failed # {}) =>
          /\ loads[k].outcome = "resolved"
          /\ loads[k].pendingAtSettle = 0
          /\ \A i \in 1..Len(tracks) :
                /\ tracks[i].name \in loads[k].failed => tracks[i].buffer = 0
                /\ tracks[i].name \in loads[k].decoded => tracks[i].buffer # 0

\* the first stem of a call, in the order of its urls, whose decode succeeded
FirstDecoded(call) ==
    call.urls[CHOOSE i \in 1..Len(call.urls) :
                 /\ call.urls[i] \in call.decoded
                 /\ \A j \in 1..(i-1) : call.urls[j] \notin call.decoded]

\* C11: once loadTracks(urls) has resolved, the duration is the decoded
\* duration of the first stem, in the order of urls, whose decode succeeded,
\* and so is the duration of the snapshot the resolving task publishes.
C11_DurationFromFirstUrl ==
    (loads # <<>> /\ loads[1].outcome = "resolved") =>
        /\ Duration = DecodedDuration(FirstDecoded(loads[1]))
        /\ ev.op = "decodeDone" =>
              snaps[Len(snaps)].duration = DecodedDuration(FirstDecoded(loads[1]))

\* C12: once the duration is not 0, no task of one load changes it (a later
\* decode completing, a volume or mute call, play, pause, stop, seek, a
\* callback), and every snapshot published from then on carries it.
C12_DurationFixedOnceSet ==
    [][Duration # 0 =>
          /\ Duration' = Duration
          /\ \A i \in 1..Len(snaps') : snaps'[i].duration = Duration]_vars

C12_Witness ==
    /\ ev.op = "decodeDone"
    /\ NumLoaded(tracks) = 2
    /\ tracks[1].buffer # tracks[2].buffer
    /\ Duration = tracks[1].buffer

\* C13: when a second (or later) loadTracks(urls) call has started, no track
\* whose name is not in urls is left in the Map, no source is live and the
\* engine is not playing.
C13_ReloadDiscardsPrevious ==
    (ev.op = "loadTracks" /\ Len(loads) >= 2) =>
        /\ \A i \in 1..Len(tracks) : tracks[i].name \in Range(loads[Len(loads)].urls)
        /\ \A name \in TrackNames : LiveHandles(name) = 0
        /\ ~IsPlaying

\* C14: a stem of a loadTracks() call that completes after a later
\* loadTracks() call was made neither adds nor overwrites a track and leaves
\* the duration as it was.
C14_SupersededResultsIgnored ==
    [][(ev'.op = "decodeDone" /\ ev'.arg < Len(loads)) =>
          /\ tracks' = tracks
          /\ Duration' = Duration]_vars

\* the last task was a volume or mute call
GainCall(e) == e.op \in {"setTrackVolume", "setTrackMuted", "setMasterVolume"}

\* C15: setTrackVolume, setTrackMuted and setMasterVolume leave every track's
\* source, isPlaying, the reference instant, the paused position and the
\* duration as they were; setTrackMuted(name, true) leaves the named track
\* muted with its gain node, if it has one, at 0, and changes no other track.
C15_GainCallsFrame ==
    [][GainCall(ev') =>
          /\ Len(tracks') = Len(tracks)
          /\ \A i \in 1..Len(tracks) : tracks'[i].source = tracks[i].source
          /\ IsPlaying' = IsPlaying
          /\ startTime' = startTime
          /\ pausedAt' = pausedAt
          /\ Duration' = Duration
          /\ ended' = ended
          /\ (ev'.op = "setTrackMuted" /\ ev'.arg = 1) =>
                \A i \in 1..Len(tracks) :
                   IF tracks[i].name = ev'.name
                   THEN /\ tracks'[i].isMuted
                        /\ tracks'[i].gainNode \in {NoGainNode, 0}
                   ELSE tracks'[i] = tracks[i]]_vars

C15_Witness ==
    /\ ev.op = "setTrackMuted" /\ ev.arg = 1
    /\ IsPlaying
    /\ Len(tracks) = 2
    /\ \E i, j \in 1..2 :
          /\ tracks[i].name = ev.name /\ tracks[i].gainNode = 0
          /\ tracks[j].name # ev.name /\ tracks[j].gainNode > 0

\* C16: setTrackVolume(name, p) with p a whole number in 0..100 (the argument,
\* counted in hundredths, is 100 * p) and `name` a track of the Map leaves the
\* track's volume, which getTrackStates() reports, at p, and its gain node,
\* if it has one, at (p/100)^2 when not muted and at 0 when muted.
C16_SetTrackVolumeStores ==
    (ev.op = "setTrackVolume" /\ ev.arg % 100 = 0 /\ (ev.arg \div 100) \in 0..100) =>
        \A i \in 1..Len(tracks) :
           tracks[i].name = ev.name =>
              /\ tracks[i].volume = ev.arg \div 100
              /\ tracks[i].gainNode \in
                    {NoGainNode, TrackGain(tracks[i].isMuted, ev.arg \div 100)}

\* the last task named a stem of the loadTracks() call
NamesLoadingTrack == loads # <<>> /\ ev.name \in Range(loads[1].urls)

\* C17: a mute or volume value set for a stem of the load, in any state (its
\* decode still in flight included), is held by the engine after the call,
\* and a source that play() or seek() starts has its gain node at the gain of
\* the values held.
C17_GainRetainedAndApplied ==
    /\ (ev.op = "setTrackMuted" /\ NamesLoadingTrack) =>
          \E i \in 1..Len(tracks) :
             tracks[i].name = ev.name /\ tracks[i].isMuted = (ev.arg = 1)
    /\ (ev.op = "setTrackVolume" /\ NamesLoadingTrack) =>
          \E i \in 1..Len(tracks) :
             tracks[i].name = ev.name /\ tracks[i].volume = VolumePercent(ev.arg)
    /\ ev.op \in {"play", "seek"} =>
          \A i \in 1..Len(tracks) :
             tracks[i].source.on =>
                tracks[i].gainNode = TrackGain(tracks[i].isMuted, tracks[i].volume)

\* C18: a play() in which a start() throws rejects, publishes a snapshot with
\* an error, and leaves no track holding a source, the engine not playing and
\* the paused position as it was before the call.
C18_FailedPlayRestoresState ==
    (ev.op = "play" /\ ev.failed) =>
        /\ ev.threw
        /\ \E i \in 1..Len(snaps) : snaps[i].error # "null"
        /\ \A i \in 1..Len(tracks) : ~tracks[i].source.on
        /\ ~IsPlaying
        /\ pausedAt = ev.arg

\* C19: a seek() made while playing in which a start() throws rejects and
\* publishes a snapshot with an error.
C19_FailedSeekReportsError ==
    (ev.op = "seek" /\ ev.was /\ ev.failed) =>
        /\ ev.threw
        /\ \E i \in 1..Len(snaps) : snaps[i].error # "null"

\* C20: between a play() and the next pause(), stop() or seek() call the
\* position that getState() reports is never above the duration, and the
\* positions of the snapshots an animation frame publishes are never above
\* the duration and never decrease.
C20_PositionMonotoneWhilePlaying ==
    /\ (ev.sincePlay /\ IsPlaying) => getState(Eng).currentTime <= Duration
    /\ (ev.sincePlay /\ ev.op = "frame" /\ ev.was) =>
          /\ \A i \in 1..Len(snaps) : snaps[i].currentTime <= snaps[i].duration
          /\ \A i, j \in 1..Len(snaps) :
                i < j => snaps[i].currentTime <= snaps[j].currentTime

\* a loadTracks() call has not settled
LoadUnsettled == \E k \in 1..Len(loads) : loads[k].outcome = "pending"

\* C21: every snapshot published while the loadTracks() call has not settled
\* has isLoading = TRUE, whichever task published it, and the snapshot the
\* settling task publishes has isLoading = FALSE.
C21_LoadingFlagWhileLoading ==
    /\ (LoadUnsettled /\ ev.op # "decodeDone") =>
          \A i \in 1..Len(snaps) : snaps[i].isLoading
    /\ (ev.op = "decodeDone" /\ ~LoadUnsettled /\ snaps # <<>>) =>
          ~snaps[Len(snaps)].isLoading

\* the tasks that make a discrete transition: the owner's playback calls, the
\* continuation of play(), and the settlement of a load
DiscreteTransition ==
    /\ ev.op \in {"play", "pause", "stop", "seek", "decodeDone"}
    /\ snaps # <<>>

\* C22: the snapshot a discrete transition leaves is in the subscriber's
\* state as soon as the task is over, however short the time since the
\* update accepted before it and whether or not isPlaying changed.
C22_TransitionsReachSubscriber ==
    (hook.on /\ DiscreteTransition) => hook.engineState = snaps[Len(snaps)]

\* the error the n-th invocation of the operation rejects with
ErrorOf(n) ==
    [kind |-> retry.operation[n].kind, statusCode |-> retry.operation[n].statusCode,
     at |-> n]

\* C23: retryWithBackoff invokes the operation at most maxRetries + 1 times;
\* when it returns, it returns what the first successful invocation resolved
\* with; an ApiError with a 4xx status other than 429, or a ValidationError,
\* is rethrown by the attempt that met it, with no attempt after it; and when
\* every attempt has failed the error thrown is that of the last attempt.
C23_RetryWithBackoff ==
    /\ retry.invoked <= Max(0, retry.maxRetries + 1)
    /\ retry.state = "returned" =>
          /\ retry.operation[retry.invoked].kind = "ok"
          /\ retry.value = retry.invoked
          /\ \A j \in 1..(retry.invoked - 1) : retry.operation[j].kind # "ok"
    /\ \A i \in 1..retry.invoked :
          (\/ /\ retry.operation[i].kind = "ApiError"
              /\ retry.operation[i].statusCode \in 400..499
              /\ retry.operation[i].statusCode # 429
           \/ retry.operation[i].kind = "ValidationError") =>
             /\ retry.invoked = i
             /\ retry.state = "threw"
             /\ retry.lastError = ErrorOf(i)
    /\ (retry.state = "threw" /\ retry.invoked > 0) =>
          /\ retry.lastError = ErrorOf(retry.invoked)
          /\ \A j \in 1..retry.invoked : retry.operation[j].kind # "ok"

\* a call that returned on its last permitted attempt, and one that rethrew
\* a ValidationError met on a retry
C23_Witness ==
    \/ /\ retry.state = "returned"
       /\ retry.maxRetries = MaxRetriesArg
       /\ retry.invoked = MaxRetriesArg + 1
    \/ /\ retry.state = "threw"
       /\ retry.invoked = 2
       /\ retry.maxRetries = MaxRetriesArg
       /\ retry.operation[2].kind = "ValidationError"

EndsWith(str, suffix) ==
    /\ Len(suffix) <= Len(str)
    /\ SubSeq(str, Len(str) - Len(suffix) + 1, Len(str)) = suffix

\* the file is one uploadFile must refuse
MustReject(file) ==
    \/ file.size > 100 * 1024 * 1024
    \/ /\ ~AllowedType(file.type)
       /\ ~\E ext \in AllowedExtensions : EndsWith(ToLowerCase(file.name), ext)
    \/ file.size = 0

\* C24: uploadFile rejects with a ValidationError, no request sent, whenever
\* the file is larger than 100MB, or has neither an allowed MIME type nor a
\* name ending in .mp3, .wav, .m4a or .flac, or is empty.
C24_UploadValidates ==
    (upload.state \notin {"idle", "called"} /\ MustReject(upload.file)) =>
        /\ upload.state = "rejected"
        /\ upload.error.kind = "ValidationError"
        /\ upload.requests = 0

\* an empty file of an allowed type and name was refused
C24_Witness ==
    /\ upload.state = "rejected"
    /\ upload.file.size = 0
    /\ AllowedType(upload.file.type)
    /\ upload.error.kind = "ValidationError"
    /\ upload.requests = 0

\* C25: a pause() the owner calls takes effect whether or not the seek-guard
\* is set: when it returns no track holds a source, isPlaying is false and no
\* frame callback is scheduled.
C25_PauseDuringGuardTakesEffect ==
    ev.op = "pause" => (~IsPlaying /\ ~animationFrameId)

\* C26: when stop() returns, from whatever state it was called in, the
\* position is 0, no track holds a source and isPlaying is false.
C26_StopResets ==
    ev.op = "stop" =>
        /\ getState(Eng).currentTime = 0
        /\ pausedAt = 0
        /\ \A i \in 1..Len(tracks) : ~tracks[i].source.on
        /\ ~IsPlaying

\* C27: the 'ended' callback of a source that a seek() made while playing
\* discarded never pauses the engine, however long after the seek it is
\* delivered: here, after that seek's guard timeout has fired.
C27_DiscardedCallbackNeverPauses ==
    ~(ev.op = "onended" /\ ev.arg = 1 /\ ev.rapid /\ ~ev.inGuard /\ ev.paused)

\* every source a track holds has been started
AllStarted == \A i \in 1..Len(tracks) : tracks[i].source.on => tracks[i].source.started

\* C28: while playing the reported position is clock - startTime whatever
\* startTime is, 0 included, and a pause() made while playing records
\* clock - startTime as the paused position.
C28_PositionFromReferenceInstant ==
    /\ (IsPlaying /\ AllStarted) => getState(Eng).currentTime = clock - startTime
    /\ (ev.op = "pause" /\ ev.was /\ ev.paused) => pausedAt = clock - startTime

\* the sources the tracks hold
Started == {i \in 1..Len(tracks) : tracks[i].source.on /\ tracks[i].source.started}

\* C29: when a play() or a seek() has started the sources, every one of them
\* was started at the same instant and at the same buffer offset, and that
\* instant less that offset is startTime.
C29_HandlesShareInstantAndOffset ==
    (ev.op \in {"play", "seek"} /\ ~ev.threw) =>
        \A i \in Started :
            /\ tracks[i].source.startAt - tracks[i].source.offset = startTime
            /\ \A j \in Started :
                  /\ tracks[j].source.startAt = tracks[i].source.startAt
                  /\ tracks[j].source.offset = tracks[i].source.offset

\* C30: after a seek(), whether it returned or threw, the seek-guard is
\* cleared in the end, and nothing but a seek() sets it again.
C30_GuardEventuallyCleared ==
    /\ isSeeking ~> ~isSeeking
    /\ [][isSeeking' => (isSeeking \/ ev'.op = "seek")]_vars

\* the guard of a seek() that threw has been cleared: the stem whose start()
\* threw still holds the source that was never started
C30_Witness ==
    /\ ev.op = "guardTimeout"
    /\ ~isSeeking
    /\ timers = <<>>
    /\ \E i \in 1..Len(tracks) : tracks[i].source.on /\ ~tracks[i].source.started

\* C31: when a task has published a snapshot and no call is in flight, the
\* isPlaying of the snapshot published last is the derived value: some track
\* holds a source.
C31_PublishedIsPlayingIsDerived ==
    (snaps # <<>> /\ NoCallInFlight) => snaps[Len(snaps)].isPlaying = IsPlaying

\* C32: when some track holds a source and no call is in flight a frame
\* callback is scheduled, and when pause() or stop() has left no track with a
\* source none is scheduled.
C32_FrameCallbackFollowsPlaying ==
    /\ (IsPlaying /\ NoCallInFlight) => animationFrameId
    /\ (ev.op \in {"pause", "stop"} /\ ~IsPlaying) => ~animationFrameId

\* C33: a pause() called when no track holds a source leaves the position
\* where it was.
C33_PauseWhenNotPlayingKeepsPosition ==
    [][(ev'.op = "pause" /\ ~IsPlaying) => pausedAt' = pausedAt]_vars

\* C34: the 'ended' callback of a source that a play() made while playing
\* stopped and replaced never pauses the engine.
C34_ReplacedHandlesNeverPause ==
    ~(ev.op = "onended" /\ ev.arg = 1 /\ ev.byPlay /\ ev.paused)

\* C35: when pause() or stop() was called while a play() call was suspended
\* awaiting the resume of the context, no track holds a source once that
\* play() call has settled.
C35_PauseDuringResumeCancelsPlay ==
    (ev.op = "play" /\ ev.inWait /\ playWaiting = 0) => ~IsPlaying

\* C36: once dispose() has returned no source is live, no frame callback is
\* scheduled, and no task hands the listener a snapshot.
C36_DisposeSilences ==
    audioContext = "closed" =>
        /\ \A name \in TrackNames : LiveHandles(name) = 0
        /\ \A i \in 1..Len(tracks) : ~tracks[i].source.on
        /\ ~animationFrameId
        /\ ev.op # "dispose" => snaps = <<>>

\* dispose() was called with a load in flight and the seek-guard set, and
\* the load has settled since, its stems back in the map
C36_Witness ==
    /\ audioContext = "closed"
    /\ ev.op = "decodeDone"
    /\ ~LoadUnsettled
    /\ isSeeking
    /\ tracks # <<>>

\* the place in the map of the track the last task named, 0 when there is none
Named == IF \E i \in 1..Len(tracks) : tracks[i].name = ev.name
         THEN CHOOSE i \in 1..Len(tracks) : tracks[i].name = ev.name
         ELSE 0

\* C37: every toggleTrackMuted(name) on a track that the map holds and the
\* rendered trackStates know flips the mute flag the engine holds for it, so
\* that two calls in a row restore it, whether or not a render lies between
\* them.
C37_ToggleFlipsEngineFlag ==
    [][(/\ ev'.op = "toggleTrackMuted"
        /\ Named' # 0
        /\ StateIndex(trackStates.rendered, ev'.name) # 0) =>
          tracks'[Named'].isMuted = ~tracks[Named'].isMuted]_vars

FetchPending == \E i \in 1..Len(poll.tasks) : poll.tasks[i].kind # "timeout"
TimeoutPending == \E i \in 1..Len(poll.tasks) : poll.tasks[i].kind = "timeout"
RenderPending == Closure(poll) # poll.rendered
FetchScheduled == FetchPending \/ TimeoutPending \/ RenderPending
Undisturbed == poll.on /\ poll.mounted /\ poll.calls = 0 /\ ~poll.fetchFailed

\* C38: while the hook is mounted, every status fetch has succeeded and the
\* owner has called nothing, a last fetched status of 'queued' or 'processing'
\* leaves a further status fetch scheduled (one in flight, a poll timeout
\* pending, or a render pending that issues one), and a last fetched status of
\* 'completed', 'completed_with_errors' or 'failed' leaves none scheduled
C38_PollsUntilTerminalStatus ==
    Undisturbed =>
        /\ poll.status \in {"queued", "processing"} => FetchScheduled
        /\ poll.status \in {"completed", "completed_with_errors", "failed"}
               => ~FetchScheduled
====
